---- MODULE Spec2Model ----
(***************************************************************************)
(* Model of examples/python_colab_example.py: the run_zmcp invoker and the *)
(* module-level script (Examples 1-5) plus colab_pdb_workflow.             *)
(*                                                                         *)
(* Text (standard output, standard error, an error message) is a sequence  *)
(* of lexical chunks; the text itself is the concatenation of the chunks.  *)
(* A JSON document on standard output is the sequence of its JSON tokens   *)
(* (punctuation, literals, whitespace), so json.loads is modelled as the   *)
(* parser over tokens, with the grammar of Python's json module.           *)
(***************************************************************************)
EXTENDS Integers, Sequences, FiniteSets, TLC

VARIABLES
    pc,          \* position of the script (which example runs next)
    invocations, \* every command line handed to subprocess.run, in order
    spawns,      \* number of subprocess.run calls made so far
    items,       \* global 'items' (result of the search of Example 3)
    att,         \* att_key / output_path chosen in Example 4
    idx,         \* number of identifiers of pdb_ids the batch loop has taken
    structures,  \* global 'structures' of Example 5
    out,         \* the lines printed so far that carry data (banners left out)
    err,         \* the uncaught exception that ended the script, or NoError
    last,        \* the latest run_zmcp call: its inputs and its outcome
    calls,       \* number of run_zmcp calls made so far
    workflow     \* the latest colab_pdb_workflow call: inputs, position and outcome

vars ==
    <<pc, invocations, spawns, items, att, idx, structures, out, err, last, calls,
      workflow>>

----------------------------------------------------------------------------
(* Decoded JSON values (what json.loads returns), tagged by Python type.   *)

JNull == [t |-> "null"]
JBool(b) == [t |-> "bool", b |-> b]
JNum(n) == [t |-> "num", n |-> n]
JStr(s) == [t |-> "str", s |-> s]
JArr(a) == [t |-> "arr", a |-> a]
JObj(o) == [t |-> "obj", o |-> o]

Whitespace == {" ", "\n", "\t", "\r"}

\* String literal tokens and the Python str each decodes to.
StringLits ==
    { <<"\"pdbId\"", "pdbId">>, <<"\"title\"", "title">>,
      <<"\"authors\"", "authors">>, <<"\"method\"", "method">>,
      <<"\"doi\"", "doi">>, <<"\"fileSize\"", "fileSize">>,
      <<"\"itemKey\"", "itemKey">>, <<"\"collection\"", "collection">>,
      <<"\"hasFile\"", "hasFile">>, <<"\"url\"", "url">>,
      <<"\"key\"", "key">>, <<"\"itemType\"", "itemType">>,
      <<"\"children\"", "children">>, <<"\"contentType\"", "contentType">>,
      <<"\"filename\"", "filename">>, <<"\"size\"", "size">>,
      <<"\"item\"", "item">>, <<"\"DOI\"", "DOI">>,
      <<"\"4HHB\"", "4HHB">>, <<"\"Hemoglobin\"", "Hemoglobin">>,
      <<"\"Perutz\"", "Perutz">>, <<"\"X-RAY\"", "X-RAY">>,
      <<"\"10.2210/pdb4hhb/pdb\"", "10.2210/pdb4hhb/pdb">>,
      <<"\"ABC123\"", "ABC123">>, <<"\"Python Structures\"", "Python Structures">>,
      <<"\"zotero://select/ABC123\"", "zotero://select/ABC123">>,
      <<"\"journalArticle\"", "journalArticle">>,
      <<"\"attachment\"", "attachment">>, <<"\"note\"", "note">>,
      <<"\"chemical/x-pdb\"", "chemical/x-pdb">>,
      <<"\"application/pdf\"", "application/pdf">>,
      <<"\"4hhb.pdb\"", "4hhb.pdb">>, <<"\"ATT1\"", "ATT1">>,
      <<"\"ATT2\"", "ATT2">>, <<"\"\"", "">>,
      <<"\"T1\"", "T1">>, <<"\"T2\"", "T2">>, <<"\"T3\"", "T3">>,
      <<"\"T4\"", "T4">>, <<"\"T5\"", "T5">>, <<"\"T6\"", "T6">>,
      <<"\"T7\"", "T7">>, <<"\"T8\"", "T8">>,
      <<"\"K1\"", "K1">>, <<"\"K2\"", "K2">>, <<"\"K3\"", "K3">>,
      <<"\"K4\"", "K4">>, <<"\"K5\"", "K5">>, <<"\"K6\"", "K6">>,
      <<"\"K7\"", "K7">>, <<"\"K8\"", "K8">> }

\* Number tokens and the int each decodes to.
NumberLits == { <<"0", 0>>, <<"7", 7>>, <<"574", 574>>, <<"473000", 473000>> }

IsStringTok(tok) == \E p \in StringLits : p[1] = tok
StringOf(tok) == (CHOOSE p \in StringLits : p[1] = tok)[2]
IsNumberTok(tok) == \E p \in NumberLits : p[1] = tok
NumberOf(tok) == (CHOOSE p \in NumberLits : p[1] = tok)[2]

\* why: the JSONDecodeError message, without its position suffix.
ParseFail(why) == [ok |-> FALSE, why |-> why]
ParseOk(v, e) == [ok |-> TRUE, val |-> v, end |-> e]

RECURSIVE SkipWs(_, _)
SkipWs(toks, i) ==
    IF i <= Len(toks) /\ toks[i] \in Whitespace THEN SkipWs(toks, i + 1) ELSE i

RECURSIVE ParseValue(_, _), ParseElements(_, _, _), ParseMembers(_, _, _)

\* json.scanner: one value starting at token i (no leading whitespace).
ParseValue(toks, i) ==
    IF i > Len(toks) THEN ParseFail("Expecting value")
    ELSE LET tok == toks[i] IN
         CASE IsStringTok(tok) -> ParseOk(JStr(StringOf(tok)), i + 1)
           [] IsNumberTok(tok) -> ParseOk(JNum(NumberOf(tok)), i + 1)
           [] tok = "null" -> ParseOk(JNull, i + 1)
           [] tok = "true" -> ParseOk(JBool(TRUE), i + 1)
           [] tok = "false" -> ParseOk(JBool(FALSE), i + 1)
           [] tok = "[" ->
                LET j == SkipWs(toks, i + 1) IN
                IF j <= Len(toks) /\ toks[j] = "]"
                THEN ParseOk(JArr(<<>>), j + 1)
                ELSE ParseElements(toks, j, <<>>)
           [] tok = "{" ->
                LET j == SkipWs(toks, i + 1) IN
                IF j <= Len(toks) /\ toks[j] = "}"
                THEN ParseOk(JObj(<<>>), j + 1)
                ELSE ParseMembers(toks, j, <<>>)
           [] OTHER -> ParseFail("Expecting value")

\* json.decoder.JSONArray: the elements after '[', acc holds those read.
ParseElements(toks, j, acc) ==
    LET r == ParseValue(toks, j) IN
    IF ~r.ok THEN r
    ELSE LET k == SkipWs(toks, r.end) IN
         IF k > Len(toks) THEN ParseFail("Expecting ',' delimiter")
         ELSE IF toks[k] = "]" THEN ParseOk(JArr(Append(acc, r.val)), k + 1)
         ELSE IF toks[k] = ","
              THEN ParseElements(toks, SkipWs(toks, k + 1), Append(acc, r.val))
         ELSE ParseFail("Expecting ',' delimiter")

\* json.decoder.JSONObject: the members after '{'; a repeated key keeps the
\* last value.
ParseMembers(toks, j, acc) ==
    IF j > Len(toks) \/ ~IsStringTok(toks[j])
    THEN ParseFail("Expecting property name enclosed in double quotes")
    ELSE LET key == StringOf(toks[j])
             k == SkipWs(toks, j + 1)
         IN IF k > Len(toks) \/ toks[k] # ":"
            THEN ParseFail("Expecting ':' delimiter")
            ELSE LET r == ParseValue(toks, SkipWs(toks, k + 1)) IN
                 IF ~r.ok THEN r
                 ELSE LET n == SkipWs(toks, r.end)
                          acc2 == (key :> r.val) @@ acc
                      IN IF n > Len(toks) THEN ParseFail("Expecting ',' delimiter")
                         ELSE IF toks[n] = "}" THEN ParseOk(JObj(acc2), n + 1)
                         ELSE IF toks[n] = ","
                              THEN ParseMembers(toks, SkipWs(toks, n + 1), acc2)
                         ELSE ParseFail("Expecting ',' delimiter")

\* Mutant: raw_decode instead of loads, which ignores what follows the value.
JsonLoads_raw(toks) == ParseValue(toks, SkipWs(toks, 1))

\* json.loads: leading whitespace, one value, trailing whitespace, the end.
JsonLoads(toks) ==
    LET r == ParseValue(toks, SkipWs(toks, 1)) IN
    IF ~r.ok THEN r
    ELSE IF SkipWs(toks, r.end) <= Len(toks) THEN ParseFail("Extra data")
    ELSE r

----------------------------------------------------------------------------
(* The invoker.                                                            *)

CLI_PATH == "zmcp"

NoError == [kind |-> "none"]
NoValue == [t |-> "none"]
PyText(chunks) == [t |-> "text", s |-> chunks]

Raise(cmd, kind, msg) ==
    [cmd |-> cmd, spawned |-> 1, raised |-> TRUE,
     exc |-> [kind |-> kind, msg |-> msg], value |-> NoValue]
Return(cmd, v) ==
    [cmd |-> cmd, spawned |-> 1, raised |-> FALSE, exc |-> NoError, value |-> v]

\* What one subprocess.run call can observe of the child: whether the
\* executable could be started at all, and if so its exit status and the
\* captured standard output and standard error.
Child(launched, returncode, stdout, stderr) ==
    [launched |-> launched, returncode |-> returncode,
     stdout |-> stdout, stderr |-> stderr]
NotLaunched == Child(FALSE, 0, <<>>, <<>>)

RECURSIVE RStrip(_)
RStrip(chunks) ==
    IF chunks # <<>> /\ chunks[Len(chunks)] \in Whitespace
    THEN RStrip(SubSeq(chunks, 1, Len(chunks) - 1))
    ELSE chunks

\* Mutant: the exit status is looked at only after the output failed to decode.
run_zmcp_late_check(command, args, json_output, child) ==
    LET cmd == <<CLI_PATH, command>> \o args
                  \o (IF json_output THEN <<"--json">> ELSE <<>>)
    IN IF ~child.launched
       THEN Raise(cmd, "FileNotFoundError",
                  <<"[Errno 2] No such file or directory: 'zmcp'">>)
       ELSE IF json_output /\ JsonLoads(child.stdout).ok
       THEN Return(cmd, JsonLoads(child.stdout).val)
       ELSE IF child.returncode # 0
       THEN Raise(cmd, "Exception", <<"Command failed: ">> \o child.stderr)
       ELSE IF json_output
       THEN Raise(cmd, "JSONDecodeError", <<JsonLoads(child.stdout).why>>)
       ELSE Return(cmd, PyText(child.stdout))

\* Mutant: the text result is stripped of trailing whitespace.
run_zmcp_strip(command, args, json_output, child) ==
    LET cmd == <<CLI_PATH, command>> \o args
                  \o (IF json_output THEN <<"--json">> ELSE <<>>)
    IN IF ~child.launched
       THEN Raise(cmd, "FileNotFoundError",
                  <<"[Errno 2] No such file or directory: 'zmcp'">>)
       ELSE IF child.returncode # 0
       THEN Raise(cmd, "Exception", <<"Command failed: ">> \o child.stderr)
       ELSE IF json_output
       THEN LET r == JsonLoads(child.stdout) IN
            IF r.ok THEN Return(cmd, r.val)
            ELSE Raise(cmd, "JSONDecodeError", <<r.why>>)
       ELSE Return(cmd, PyText(RStrip(child.stdout)))

\* Mutant: a launch failure is caught and reported like a failed command.
run_zmcp_wrap(command, args, json_output, child) ==
    LET cmd == <<CLI_PATH, command>> \o args
                  \o (IF json_output THEN <<"--json">> ELSE <<>>)
    IN IF ~child.launched \/ child.returncode # 0
       THEN Raise(cmd, "Exception", <<"Command failed: ">> \o child.stderr)
       ELSE IF json_output
       THEN LET r == JsonLoads(child.stdout) IN
            IF r.ok THEN Return(cmd, r.val)
            ELSE Raise(cmd, "JSONDecodeError", <<r.why>>)
       ELSE Return(cmd, PyText(child.stdout))

\* run_zmcp(command, *args, json_output): the command line built, the number
\* of subprocess.run calls made, and the value returned or exception raised.
run_zmcp(command, args, json_output, child) ==
    LET cmd == <<CLI_PATH, command>> \o args
                  \o (IF json_output THEN <<"--json">> ELSE <<>>)
    IN IF ~child.launched
       THEN Raise(cmd, "FileNotFoundError",
                  <<"[Errno 2] No such file or directory: 'zmcp'">>)
       ELSE IF child.returncode # 0
       THEN Raise(cmd, "Exception", <<"Command failed: ">> \o child.stderr)
       ELSE IF json_output
       THEN LET r == JsonLoads(child.stdout) IN
            IF r.ok THEN Return(cmd, r.val)
            ELSE Raise(cmd, "JSONDecodeError", <<r.why>>)
       ELSE Return(cmd, PyText(child.stdout))

----------------------------------------------------------------------------
(* Inputs: what the external tool may write.                               *)

FetchDoc ==
    <<"{", "\"pdbId\"", ":", "\"4HHB\"", ",", "\"title\"", ":", "\"Hemoglobin\"", ",",
      "\"authors\"", ":", "\"Perutz\"", ",", "\"method\"", ":", "\"X-RAY\"", ",",
      "\"doi\"", ":", "\"10.2210/pdb4hhb/pdb\"", ",",
      "\"fileSize\"", ":", "473000", "}", "\n">>
FetchNoTitleDoc == <<"{", "\"pdbId\"", ":", "\"4HHB\"", "}", "\n">>
FetchNullTitleDoc ==
    <<"{", "\"pdbId\"", ":", "\"4HHB\"", ",", " ", "\"title\"", ":", " ", "null", "}">>
SaveDoc ==
    <<"{", "\"itemKey\"", ":", "\"ABC123\"", ",", "\"title\"", ":", "\"Hemoglobin\"", ",",
      "\"collection\"", ":", "\"Python Structures\"", ",", "\"hasFile\"", ":", "true", ",",
      "\"url\"", ":", "\"zotero://select/ABC123\"", "}", "\n">>
EmptyObjectDoc == <<"{", "}", "\n">>
TruncatedDoc == <<"{", "\"title\"", ":">>
TrailingCommaDoc == <<"[", "\"T1\"", ",", "]">>
ExtraDataDoc == <<"{", "}", "\n", "{", "}">>
PlainTextDoc == <<"Fetched 4HHB", "\n">>
NoOutput == <<>>
\* the scenario of the spec: [{"title":"Hemoglobin","key":"ABC123"}]
ScenarioDoc ==
    <<"[", "{", "\"title\"", ":", "\"Hemoglobin\"", ",", "\"key\"", ":", "\"ABC123\"", "}", "]">>
PaddedDoc == <<" ", "\n", "[", " ", "7", " ", ",", "\t", "null", "]", " ", "\n">>

NoStderr == <<>>
NotFoundStderr == <<"Error: PDB entry not found", "\n">>
TraceStderr == <<"\n", "  at fetch (cli.js:10)", "\n", "Error: network", " ", "\n">>

----------------------------------------------------------------------------
(* run_zmcp on its own: any command, arguments, flag and child.            *)

MaxCalls == 2

RunCommands == {"fetch-pdb", "search"}
RunArgs == { <<>>, <<"4HHB", "--output", "hemoglobin.pdb">> }
RunStdouts ==
    { FetchDoc, ScenarioDoc, PaddedDoc, TruncatedDoc, TrailingCommaDoc,
      ExtraDataDoc, PlainTextDoc, NoOutput }
RunStderrs == { NoStderr, NotFoundStderr, TraceStderr }
\* A child that fails may still have written to its standard output.
FailedStdouts == { ScenarioDoc, NoOutput }
RunChildren ==
    { NotLaunched } \cup
    { Child(TRUE, 0, so, se) : so \in RunStdouts, se \in RunStderrs } \cup
    { Child(TRUE, rc, so, se) : rc \in {1, 2}, so \in FailedStdouts, se \in RunStderrs }

NoCall == [made |-> FALSE]
Call(site, command, args, json_output, child, res) ==
    [made |-> TRUE, at |-> site, command |-> command, args |-> args,
     json_output |-> json_output, child |-> child, res |-> res]

\* The bookkeeping of one run_zmcp call made at call site 'site'.
Invoked(site, command, args, json_output, child, res) ==
    /\ last' = Call(site, command, args, json_output, child, res)
    /\ invocations' = Append(invocations, [at |-> site, cmd |-> res.cmd])
    /\ spawns' = spawns + res.spawned
    /\ calls' = calls + 1

Init ==
    /\ pc = "ex1"
    /\ invocations = <<>>
    /\ workflow = NoCall
    /\ spawns = 0
    /\ items = NoValue
    /\ att = NoValue
    /\ idx = 0
    /\ structures = <<>>
    /\ out = <<>>
    /\ err = NoError
    /\ last = NoCall
    /\ calls = 0

\* colab_pdb_workflow is between its fetch (line 141) and its save (line 145).
InWorkflow == workflow.made /\ workflow.pending

\* One call of run_zmcp from outside the script. The interpreter runs one
\* call at a time: none starts while colab_pdb_workflow has not returned.
Invoke ==
    /\ calls < MaxCalls
    /\ ~InWorkflow
    /\ \E command \in RunCommands, args \in RunArgs,
          json_output \in BOOLEAN, child \in RunChildren :
          Invoked("caller", command, args, json_output, child,
                  run_zmcp(command, args, json_output, child))
    /\ UNCHANGED <<pc, items, att, idx, structures, out, err, workflow>>

----------------------------------------------------------------------------
(* Python operations on decoded values.                                    *)

KeyError(k) == [kind |-> "KeyError", msg |-> <<k>>]
TypeError == [kind |-> "TypeError", msg |-> <<>>]

\* v[k]: the exception the subscript raises, NoError when it yields v.o[k].
SubscriptErr(v, k) ==
    IF v.t = "obj"
    THEN IF k \in DOMAIN v.o THEN NoError ELSE KeyError(k)
    ELSE TypeError

\* v.get(k, default) on a dict.
Get(v, k, default) == IF k \in DOMAIN v.o THEN v.o[k] ELSE default

\* Mutant: every field is read with .get(key, 'N/A').
RECURSIVE PrintFields_get(_, _, _)
PrintFields_get(v, keys, lines) ==
    IF keys = <<>> THEN [lines |-> lines, exc |-> NoError]
    ELSE IF v.t # "obj" THEN [lines |-> lines, exc |-> TypeError]
    ELSE PrintFields_get(v, Tail(keys),
            Append(lines, [label |-> Head(keys), v |-> Get(v, Head(keys), JStr("N/A"))]))

\* A run of print statements, one per key, each printing v[key]: the lines
\* printed before the first failing read, and that read's exception.
RECURSIVE PrintFields(_, _, _)
PrintFields(v, keys, lines) ==
    IF keys = <<>> THEN [lines |-> lines, exc |-> NoError]
    ELSE LET e == SubscriptErr(v, Head(keys)) IN
         IF e # NoError THEN [lines |-> lines, exc |-> e]
         ELSE PrintFields(v, Tail(keys),
                          Append(lines, [label |-> Head(keys), v |-> v.o[Head(keys)]]))

\* Mutant: the exception is swallowed and the script goes on to the batch.
Abort_swallow(exc) == pc' = "ex5" /\ err' = exc

\* An exception nothing catches: the script ends with its traceback.
Abort(exc) == pc' = "aborted" /\ err' = exc

\* A run_zmcp call one of whose arguments is not a str (args holds the
\* decoded value in its place): run_zmcp builds the command line and calls
\* subprocess.run once, which raises TypeError before a process exists, so
\* there is no child to observe.
Rejected(site, command, args) ==
    LET cmd == <<CLI_PATH, command>> \o args \o <<"--json">> IN
    /\ last' = [made |-> TRUE, at |-> site, command |-> command, args |-> args,
                json_output |-> TRUE, child |-> NotLaunched,
                res |-> [cmd |-> cmd, spawned |-> 1, raised |-> TRUE,
                         exc |-> TypeError, value |-> NoValue]]
    /\ invocations' = Append(invocations, [at |-> site, cmd |-> cmd])
    /\ spawns' = spawns + 1
    /\ calls' = calls + 1

----------------------------------------------------------------------------
(* The script.                                                             *)

MaxItems == 6

TitleTok == <<"\"T1\"", "\"T2\"", "\"T3\"", "\"T4\"", "\"T5\"", "\"T6\"", "\"T7\"", "\"T8\"">>
KeyTok == <<"\"K1\"", "\"K2\"", "\"K3\"", "\"K4\"", "\"K5\"", "\"K6\"", "\"K7\"", "\"K8\"">>
ItemToks(i) == <<"{", "\"title\"", ":", TitleTok[i], ",", "\"key\"", ":", KeyTok[i], "}">>

RECURSIVE ItemsToks(_)
ItemsToks(n) ==
    IF n = 0 THEN <<>>
    ELSE IF n = 1 THEN ItemToks(1)
    ELSE ItemsToks(n - 1) \o <<",">> \o ItemToks(n)

\* a search result of n items: [{"title":"T1","key":"K1"}, ...]
SearchDoc(n) == <<"[">> \o ItemsToks(n) \o <<"]", "\n">>
\* the second item has no title
SearchNoTitleDoc ==
    <<"[">> \o ItemToks(1) \o <<",", "{", "\"key\"", ":", "\"K2\"", "}", "]">>
\* the key of the first item is a number
SearchNumKeyDoc == <<"[", "{", "\"title\"", ":", "\"T1\"", ",", "\"key\"", ":", "7", "}", "]">>

GetDoc ==
    <<"{", "\"item\"", ":", "{", "\"title\"", ":", "\"Hemoglobin\"", ",",
      "\"itemType\"", ":", "\"journalArticle\"", ",", "\"DOI\"", ":",
      "\"10.2210/pdb4hhb/pdb\"", "}", ",",
      "\"children\"", ":", "[",
      "{", "\"itemType\"", ":", "\"note\"", "}", ",",
      "{", "\"itemType\"", ":", "\"attachment\"", ",", "\"contentType\"", ":",
      "\"application/pdf\"", ",", "\"key\"", ":", "\"ATT2\"", "}", ",",
      "{", "\"itemType\"", ":", "\"attachment\"", ",", "\"contentType\"", ":",
      "\"chemical/x-pdb\"", ",", "\"key\"", ":", "\"ATT1\"", ",",
      "\"filename\"", ":", "\"4hhb.pdb\"", "}", "]", "}", "\n">>
\* no DOI; the only attachment has no contentType
GetNoPdbDoc ==
    <<"{", "\"item\"", ":", "{", "\"title\"", ":", "\"Hemoglobin\"", ",",
      "\"itemType\"", ":", "\"journalArticle\"", "}", ",",
      "\"children\"", ":", "[",
      "{", "\"itemType\"", ":", "\"attachment\"", ",", "\"key\"", ":", "\"ATT2\"", "}",
      "]", "}">>
\* a PDB attachment without a filename
GetNoFilenameDoc ==
    <<"{", "\"item\"", ":", "{", "\"title\"", ":", "\"Hemoglobin\"", ",",
      "\"itemType\"", ":", "\"journalArticle\"", "}", ",",
      "\"children\"", ":", "[",
      "{", "\"itemType\"", ":", "\"attachment\"", ",", "\"contentType\"", ":",
      "\"chemical/x-pdb\"", ",", "\"key\"", ":", "\"ATT1\"", "}", "]", "}">>
\* no children
GetNoChildrenDoc ==
    <<"{", "\"item\"", ":", "{", "\"title\"", ":", "\"Hemoglobin\"", ",",
      "\"itemType\"", ":", "\"journalArticle\"", "}", "}">>
DownloadDoc == <<"{", "\"size\"", ":", "574", "}", "\n">>

\* What the tool may do at any call of the script.
Failures ==
    { NotLaunched,
      Child(TRUE, 1, NoOutput, NotFoundStderr),
      Child(TRUE, 1, FetchDoc, NoStderr),
      Child(TRUE, 0, TruncatedDoc, NoStderr),
      Child(TRUE, 0, EmptyObjectDoc, NotFoundStderr) }
Ok(stdout) == Child(TRUE, 0, stdout, NoStderr)

FetchChildren ==
    Failures \cup { Ok(FetchDoc), Ok(FetchNoTitleDoc), Ok(FetchNullTitleDoc) }
BatchChildren ==
    { NotLaunched, Child(TRUE, 1, NoOutput, NotFoundStderr), Ok(TruncatedDoc),
      Ok(FetchDoc), Ok(FetchNoTitleDoc), Ok(FetchNullTitleDoc) }
SaveChildren == Failures \cup { Ok(SaveDoc), Ok(FetchDoc) }
SearchChildren ==
    Failures \cup { Ok(SearchDoc(n)) : n \in 0..MaxItems }
             \cup { Ok(SearchNoTitleDoc), Ok(SearchNumKeyDoc), Ok(PaddedDoc) }
GetChildren ==
    Failures \cup { Ok(GetDoc), Ok(GetNoPdbDoc), Ok(GetNoFilenameDoc), Ok(GetNoChildrenDoc) }
DownloadChildren == Failures \cup { Ok(DownloadDoc), Ok(SearchDoc(1)) }

\* The fields each example prints, in the order of its print statements.
FetchFields == <<"pdbId", "title", "authors", "method", "doi", "fileSize">>
SaveFields == <<"itemKey", "title", "collection", "hasFile", "url">>
DownloadFields == <<"size">>

\* Example 1: fetch one structure and print its fields.
Example1 ==
    /\ pc = "ex1"
    /\ \E child \in FetchChildren :
          LET args == <<"4HHB", "--output", "hemoglobin.pdb">>
              res == run_zmcp("fetch-pdb", args, TRUE, child)
              p == PrintFields(res.value, FetchFields, <<>>)
          IN /\ Invoked("ex1", "fetch-pdb", args, TRUE, child, res)
             /\ IF res.raised
                THEN Abort(res.exc) /\ out' = out
                ELSE /\ out' = out \o p.lines
                     /\ IF p.exc # NoError THEN Abort(p.exc)
                        ELSE pc' = "ex2" /\ err' = err
    /\ UNCHANGED <<items, att, idx, structures, workflow>>

\* Example 2: save a citation and print its fields.
Example2 ==
    /\ pc = "ex2"
    /\ \E child \in SaveChildren :
          LET args == <<"1MBN", "--collection", "Python Structures">>
              res == run_zmcp("save-pdb", args, TRUE, child)
              p == PrintFields(res.value, SaveFields, <<>>)
          IN /\ Invoked("ex2", "save-pdb", args, TRUE, child, res)
             /\ IF res.raised
                THEN Abort(res.exc) /\ out' = out
                ELSE /\ out' = out \o p.lines
                     /\ IF p.exc # NoError THEN Abort(p.exc)
                        ELSE pc' = "ex3" /\ err' = err
    /\ UNCHANGED <<items, att, idx, structures, workflow>>

SummaryLimit == 5

Min(a, b) == IF a < b THEN a ELSE b

\* for i, item in enumerate(items[:5], 1): print i, item['title'], item['key'].
\* seq is the slice; the lines printed before the first failing read, and
\* that read's exception.
RECURSIVE Summarize(_, _, _)
Summarize(seq, i, lines) ==
    IF i > Len(seq) THEN [lines |-> lines, exc |-> NoError]
    ELSE LET e1 == SubscriptErr(seq[i], "title")
             e2 == SubscriptErr(seq[i], "key")
         IN IF e1.kind # "none" THEN [lines |-> lines, exc |-> e1]
            ELSE IF e2.kind # "none" THEN [lines |-> lines, exc |-> e2]
            ELSE Summarize(seq, i + 1,
                   Append(lines, [label |-> "item", i |-> i,
                                  title |-> seq[i].o["title"], key |-> seq[i].o["key"]]))

\* len(s) of the strings of the model (the values of StringLits).
StringLens ==
    { <<"", 0>>, <<"10.2210/pdb4hhb/pdb", 19>>, <<"4HHB", 4>>,
      <<"4hhb.pdb", 8>>, <<"ABC123", 6>>, <<"ATT1", 4>>,
      <<"ATT2", 4>>, <<"DOI", 3>>, <<"Hemoglobin", 10>>,
      <<"K1", 2>>, <<"K2", 2>>, <<"K3", 2>>,
      <<"K4", 2>>, <<"K5", 2>>, <<"K6", 2>>,
      <<"K7", 2>>, <<"K8", 2>>, <<"Perutz", 6>>,
      <<"Python Structures", 17>>, <<"T1", 2>>, <<"T2", 2>>,
      <<"T3", 2>>, <<"T4", 2>>, <<"T5", 2>>,
      <<"T6", 2>>, <<"T7", 2>>, <<"T8", 2>>,
      <<"X-RAY", 5>>, <<"application/pdf", 15>>, <<"attachment", 10>>,
      <<"authors", 7>>, <<"chemical/x-pdb", 14>>, <<"children", 8>>,
      <<"collection", 10>>, <<"contentType", 11>>, <<"doi", 3>>,
      <<"fileSize", 8>>, <<"filename", 8>>, <<"hasFile", 7>>,
      <<"item", 4>>, <<"itemKey", 7>>, <<"itemType", 8>>,
      <<"journalArticle", 14>>, <<"key", 3>>, <<"method", 6>>,
      <<"note", 4>>, <<"pdbId", 5>>, <<"size", 4>>,
      <<"title", 5>>, <<"url", 3>>, <<"zotero://select/ABC123", 22>> }
StrLen(s) == (CHOOSE p \in StringLens : p[1] = s)[2]

\* len(v): None, numbers and booleans have none.
HasLen(v) == v.t \in {"arr", "str", "obj"}
PyLen(v) ==
    CASE v.t = "arr" -> Len(v.a)
      [] v.t = "str" -> StrLen(v.s)
      [] v.t = "obj" -> Cardinality(DOMAIN v.o)

\* print(f"Found {len(items)} citations matching '{query}':")
FoundLine(v) == [label |-> "Found", n |-> PyLen(v)]

\* Mutant: the slice is off by one, items[:4].
Summary_short(v) ==
    CASE v.t = "arr" ->
            Summarize(SubSeq(v.a, 1, Min(SummaryLimit - 1, Len(v.a))), 1, <<FoundLine(v)>>)
      [] v.t = "str" /\ v.s = "" -> [lines |-> <<FoundLine(v)>>, exc |-> NoError]
      [] HasLen(v) -> [lines |-> <<FoundLine(v)>>, exc |-> TypeError]
      [] OTHER -> [lines |-> <<>>, exc |-> TypeError]

\* Lines 71-73: the count line, then the loop over v[:5], for any decoded
\* value v. len() of None, a number or a boolean raises TypeError before
\* anything is printed; slicing a dict raises TypeError (CPython 3.11) after
\* the count line; a non-empty str yields 1-character strings, which have
\* no ['title'].
Summary(v) ==
    CASE v.t = "arr" ->
            Summarize(SubSeq(v.a, 1, Min(SummaryLimit, Len(v.a))), 1, <<FoundLine(v)>>)
      [] v.t = "str" /\ v.s = "" -> [lines |-> <<FoundLine(v)>>, exc |-> NoError]
      [] HasLen(v) -> [lines |-> <<FoundLine(v)>>, exc |-> TypeError]
      [] OTHER -> [lines |-> <<>>, exc |-> TypeError]

\* bool(v) of a list or str.
Truthy(v) == IF v.t = "arr" THEN v.a # <<>> ELSE v.s # ""

\* Example 3: search and summarize; then the 'if items:' of Example 4.
Example3 ==
    /\ pc = "ex3"
    /\ \E child \in SearchChildren :
          LET args == <<"hemoglobin">>
              res == run_zmcp("search", args, TRUE, child)
              p == Summary(res.value)
          IN /\ Invoked("ex3", "search", args, TRUE, child, res)
             /\ IF res.raised
                THEN Abort(res.exc) /\ out' = out /\ items' = items
                ELSE /\ items' = res.value
                     /\ out' = out \o p.lines
                     /\ IF p.exc.kind # "none" THEN Abort(p.exc)
                        ELSE /\ pc' = IF Truthy(res.value) THEN "ex4" ELSE "ex5"
                             /\ err' = err
    /\ UNCHANGED <<att, idx, structures, workflow>>

\* The first exception of reading c[key] for the elements c of seq, in order.
RECURSIVE FirstSubscriptErr(_, _)
FirstSubscriptErr(seq, key) ==
    IF seq = <<>> THEN NoError
    ELSE IF SubscriptErr(Head(seq), key).kind # "none" THEN SubscriptErr(Head(seq), key)
    ELSE FirstSubscriptErr(Tail(seq), key)

\* Iterating a decoded value: its elements, or not iterable. A non-empty
\* str or dict yields strings, on which c['itemType'] raises TypeError too.
Iterable(v) == v.t = "arr" \/ (v.t = "str" /\ v.s = "") \/ (v.t = "obj" /\ DOMAIN v.o = {})
Elements(v) == IF v.t = "arr" THEN v.a ELSE <<>>

IsAttachment(c) == c.o["itemType"] = JStr("attachment")

\* The strings of the model (the values of StringLits) that contain 'pdb'.
PdbContentTypes == {"10.2210/pdb4hhb/pdb", "4hhb.pdb", "chemical/x-pdb", "pdbId"}

ContentType(a) == Get(a, "contentType", JStr(""))
\* 'pdb' in ct
InRaises(ct) == ct.t \in {"null", "num", "bool"}
HasPdb(ct) ==
    CASE ct.t = "str" -> ct.s \in PdbContentTypes
      [] ct.t = "arr" -> \E i \in 1..Len(ct.a) : ct.a[i] = JStr("pdb")
      [] ct.t = "obj" -> "pdb" \in DOMAIN ct.o
      [] OTHER -> FALSE
IsPdbAttachment(a) == HasPdb(ContentType(a))

RECURSIVE AnyInRaises(_)
AnyInRaises(seq) ==
    seq # <<>> /\ (InRaises(ContentType(Head(seq))) \/ AnyInRaises(Tail(seq)))

\* str(v) of a scalar.
PyStr(v) ==
    CASE v.t = "str" -> v.s
      [] v.t = "null" -> "None"
      [] v.t = "bool" -> IF v.b THEN "True" ELSE "False"
      [] v.t = "num" -> (CHOOSE p \in NumberLits : p[2] = v.n)[1]

\* The body of 'if items:' up to the download: the lines printed, the
\* exception that ends it (or NoError) and the attachment chosen (or NoValue).
Details(details) ==
    LET e0 == SubscriptErr(details, "item")
        item == details.o["item"]
        p == PrintFields(item, <<"title", "itemType">>, <<>>)
        doi == [label |-> "DOI", v |-> Get(item, "DOI", JStr("N/A"))]
        e1 == SubscriptErr(details, "children")
        children == details.o["children"]
        e2 == FirstSubscriptErr(Elements(children), "itemType")
        attachments == SelectSeq(Elements(children), IsAttachment)
        count == [label |-> "Attachments", n |-> Len(attachments)]
        pdb_attachments == SelectSeq(attachments, IsPdbAttachment)
        e3 == SubscriptErr(pdb_attachments[1], "key")
        e4 == SubscriptErr(pdb_attachments[1], "filename")
        Stop(lines, e) == [lines |-> lines, exc |-> e, att |-> NoValue]
    IN IF e0.kind # "none" THEN Stop(<<>>, e0)
       ELSE IF p.exc.kind # "none" THEN Stop(p.lines, p.exc)
       ELSE IF e1.kind # "none" THEN Stop(Append(p.lines, doi), e1)
       ELSE IF ~Iterable(children) THEN Stop(Append(p.lines, doi), TypeError)
       ELSE IF e2.kind # "none" THEN Stop(Append(p.lines, doi), e2)
       ELSE IF AnyInRaises(attachments) THEN Stop(p.lines \o <<doi, count>>, TypeError)
       ELSE IF pdb_attachments = <<>> THEN Stop(p.lines \o <<doi, count>>, NoError)
       ELSE IF e3.kind # "none" THEN Stop(p.lines \o <<doi, count>>, e3)
       ELSE IF e4.kind # "none" THEN Stop(p.lines \o <<doi, count>>, e4)
       ELSE [lines |-> p.lines \o <<doi, count>>, exc |-> NoError,
             att |-> [t |-> "att", key |-> pdb_attachments[1].o["key"],
                      path |-> PyStr(pdb_attachments[1].o["filename"])]]

\* Example 4, first half: get the details of the first item found.
\* subprocess.run rejects an argument that is not a str (TypeError).
Example4Get ==
    /\ pc = "ex4"
    /\ LET item_key == items.a[1].o["key"] IN
       IF item_key.t # "str"
       THEN /\ Abort(TypeError)
            /\ Rejected("ex4", "get", <<item_key>>)
            /\ UNCHANGED <<out, att>>
       ELSE \E child \in GetChildren :
               LET args == <<item_key.s>>
                   res == run_zmcp("get", args, TRUE, child)
                   d == Details(res.value)
               IN /\ Invoked("ex4", "get", args, TRUE, child, res)
                  /\ IF res.raised
                     THEN Abort(res.exc) /\ out' = out /\ att' = att
                     ELSE /\ out' = out \o d.lines
                          /\ att' = d.att
                          /\ IF d.exc.kind # "none" THEN Abort(d.exc)
                             ELSE /\ pc' = IF d.att = NoValue THEN "ex5" ELSE "ex4dl"
                                  /\ err' = err
    /\ UNCHANGED <<items, idx, structures, workflow>>

\* Example 4, second half: download the PDB attachment.
Example4Download ==
    /\ pc = "ex4dl"
    /\ IF att.key.t # "str"
       THEN /\ Abort(TypeError)
            /\ Rejected("ex4dl", "download", <<att.key, att.path>>)
            /\ out' = out
       ELSE \E child \in DownloadChildren :
               LET args == <<att.key.s, att.path>>
                   res == run_zmcp("download", args, TRUE, child)
                   p == PrintFields(res.value, DownloadFields, <<>>)
               IN /\ Invoked("ex4dl", "download", args, TRUE, child, res)
                  /\ IF res.raised
                     THEN Abort(res.exc) /\ out' = out
                     ELSE /\ out' = out \o p.lines
                          /\ IF p.exc.kind # "none" THEN Abort(p.exc)
                             ELSE pc' = "ex5" /\ err' = err
    /\ UNCHANGED <<items, att, idx, structures, workflow>>

pdb_ids == <<"4HHB", "1MBN", "2HHB", "1UBQ">>

\* f"{pdb_id}.pdb"
PdbFile(id) ==
    CASE id = "4HHB" -> "4HHB.pdb"
      [] id = "1MBN" -> "1MBN.pdb"
      [] id = "2HHB" -> "2HHB.pdb"
      [] id = "1UBQ" -> "1UBQ.pdb"

\* data['title'][:50]: None, numbers, booleans and dicts cannot be sliced.
\* The titles and lists of the model are shorter than 50, so the slice is
\* the whole value.
Sliceable(v) == v.t \in {"str", "arr"}

\* The try body after the fetch returned data: the exception it raises.
BatchBodyErr(data) ==
    IF SubscriptErr(data, "pdbId").kind # "none" THEN SubscriptErr(data, "pdbId")
    ELSE IF SubscriptErr(data, "title").kind # "none" THEN SubscriptErr(data, "title")
    ELSE IF ~Sliceable(data.o["title"]) THEN TypeError
    ELSE NoError

\* Mutant: the except clause leaves the loop (break).
BatchAdvance_break(i, exc) == IF exc.kind # "none" THEN Len(pdb_ids) ELSE i + 1

\* The loop variable after an iteration, whatever its outcome.
BatchAdvance(i, exc) == i + 1

\* Mutant: the loop saves the citation instead of fetching.
BatchCommand_save(pdb_id) == "save-pdb"

\* The command the loop issues for an identifier.
BatchCommand(pdb_id) == "fetch-pdb"

\* Mutant: the entry is put in front, structures.insert(0, entry).
Accumulate_front(structs, entry) == <<entry>> \o structs

\* structures.append(entry)
Accumulate(structs, entry) == Append(structs, entry)

\* Example 5: one iteration of the batch loop (try / except Exception).
BatchStep ==
    /\ pc = "ex5"
    /\ idx < Len(pdb_ids)
    /\ \E child \in BatchChildren :
          LET pdb_id == pdb_ids[idx + 1]
              output_file == PdbFile(pdb_id)
              args == <<pdb_id, "--output", output_file>>
              res == run_zmcp(BatchCommand(pdb_id), args, TRUE, child)
              data == res.value
              e == IF res.raised THEN res.exc ELSE BatchBodyErr(data)
          IN /\ Invoked("ex5", BatchCommand(pdb_id), args, TRUE, child, res)
             /\ IF e.kind # "none"
                THEN /\ out' = Append(out, [label |-> "Failed", id |-> pdb_id, e |-> e])
                     /\ structures' = structures
                ELSE /\ out' = Append(out, [label |-> "ok", pdbId |-> data.o["pdbId"],
                                            title |-> data.o["title"]])
                     /\ structures' = Accumulate(structures,
                          [id |-> pdb_id, file |-> output_file, metadata |-> data])
             /\ idx' = BatchAdvance(idx, e)
    /\ UNCHANGED <<pc, items, att, err, workflow>>

\* After the loop: the count is printed and the script runs to its end
\* (Example 6 only defines colab_pdb_workflow).
Finish ==
    /\ pc = "ex5"
    /\ idx >= Len(pdb_ids)
    /\ out' = Append(out, [label |-> "Fetched", n |-> Len(structures)])
    /\ pc' = "done"
    /\ UNCHANGED <<invocations, spawns, items, att, idx, structures, err, last, calls,
                   workflow>>

Next ==
    \/ Example1
    \/ Example2
    \/ Example3
    \/ Example4Get
    \/ Example4Download
    \/ BatchStep
    \/ Finish

Spec == Init /\ [][Next]_vars

\* Every subprocess.run call returns (the child terminates), so the script,
\* which is sequential, always takes its next step.
FairSpec == Spec /\ WF_vars(Next)

----------------------------------------------------------------------------
(* colab_pdb_workflow, called from a notebook (the script never calls it). *)

\* f"/content/{pdb_id}.pdb"
ColabFile(id) ==
    CASE id = "4HHB" -> "/content/4HHB.pdb"
      [] id = "1UBQ" -> "/content/1UBQ.pdb"

WorkflowIds == {"4HHB", "1UBQ"}
WorkflowChildren ==
    { NotLaunched, Child(TRUE, 1, NoOutput, NotFoundStderr),
      Ok(FetchDoc), Ok(SaveDoc), Ok(EmptyObjectDoc) }

\* After line 141 returned data and save_to_zotero holds: the save is next.
WorkflowPending(pdb_id, save, data) ==
    [made |-> TRUE, pending |-> TRUE, pdb_id |-> pdb_id, save_to_zotero |-> save,
     data |-> data, raised |-> FALSE, exc |-> NoError, value |-> NoValue]
WorkflowRaise(pdb_id, save, exc) ==
    [made |-> TRUE, pending |-> FALSE, pdb_id |-> pdb_id, save_to_zotero |-> save,
     data |-> NoValue, raised |-> TRUE, exc |-> exc, value |-> NoValue]
WorkflowReturn(pdb_id, save, path) ==
    [made |-> TRUE, pending |-> FALSE, pdb_id |-> pdb_id, save_to_zotero |-> save,
     data |-> NoValue, raised |-> FALSE, exc |-> NoError, value |-> path]

\* colab_pdb_workflow up to the end of its first subprocess.run call
\* (line 141), and the else branch (line 148) when nothing is to be saved.
ColabFetch ==
    /\ calls < MaxCalls
    /\ ~InWorkflow
    /\ \E pdb_id \in WorkflowIds, save_to_zotero \in BOOLEAN, child \in WorkflowChildren :
          LET output_file == ColabFile(pdb_id)
              args == <<pdb_id, "--output", output_file>>
              res == run_zmcp("fetch-pdb", args, TRUE, child)
              e == SubscriptErr(res.value, "fileSize")
          IN /\ Invoked("colab", "fetch-pdb", args, TRUE, child, res)
             /\ IF res.raised
                THEN workflow' = WorkflowRaise(pdb_id, save_to_zotero, res.exc)
                     /\ out' = out
                ELSE IF save_to_zotero
                THEN workflow' = WorkflowPending(pdb_id, save_to_zotero, res.value)
                     /\ out' = out
                ELSE IF e.kind # "none"
                THEN workflow' = WorkflowRaise(pdb_id, save_to_zotero, e)
                     /\ out' = out
                ELSE /\ workflow' = WorkflowReturn(pdb_id, save_to_zotero, output_file)
                     /\ out' = Append(out, [label |-> "colab-fetched", id |-> pdb_id,
                                            fileSize |-> res.value.o["fileSize"]])
    /\ UNCHANGED <<pc, items, att, idx, structures, err>>

\* colab_pdb_workflow from its second subprocess.run call (line 145) to its
\* return.
ColabSave ==
    /\ calls < MaxCalls
    /\ InWorkflow
    /\ \E child \in WorkflowChildren :
          LET pdb_id == workflow.pdb_id
              args == <<pdb_id, "--collection", "Colab Structures">>
              res == run_zmcp("save-pdb", args, TRUE, child)
              e == IF res.raised THEN res.exc ELSE SubscriptErr(res.value, "itemKey")
          IN /\ Invoked("colab", "save-pdb", args, TRUE, child, res)
             /\ IF e.kind # "none"
                THEN workflow' = WorkflowRaise(pdb_id, TRUE, e)
                     /\ out' = out
                ELSE /\ workflow' = WorkflowReturn(pdb_id, TRUE, ColabFile(pdb_id))
                     /\ out' = Append(out, [label |-> "colab-saved", id |-> pdb_id,
                                            itemKey |-> res.value.o["itemKey"]])
    /\ UNCHANGED <<pc, items, att, idx, structures, err>>

\* The functions of the module called from outside the script.
NextCalls ==
    \/ Invoke
    \/ ColabFetch
    \/ ColabSave

SpecCalls == Init /\ [][NextCalls]_vars

----------------------------------------------------------------------------
(* Claims about run_zmcp, checked under SpecCalls.                         *)

\* text occurs in msg as a contiguous run of chunks
Contains(msg, text) ==
    \E i \in 0..(Len(msg) - Len(text)) : SubSeq(msg, i + 1, i + Len(text)) = text

Exited == last.made /\ last.child.launched
ExitedNonZero == Exited /\ last.child.returncode # 0
ExitedZero == Exited /\ last.child.returncode = 0

\* C1: whenever the child exits with a non-zero status, whatever the json
\* flag and the standard output, run_zmcp raises, returns no value, and the
\* message of the error contains the captured standard error verbatim.
C1_NonZeroExitRaises ==
    ExitedNonZero =>
        /\ last.res.raised
        /\ last.res.value = NoValue
        /\ last.res.exc.kind = "Exception"
        /\ Contains(last.res.exc.msg, last.child.stderr)

\* a non-zero exit with a decodable standard output and JSON requested
C1_Witness ==
    /\ ExitedNonZero
    /\ last.json_output
    /\ last.child.stdout = ScenarioDoc
    /\ last.child.stderr = TraceStderr
    /\ last.res.raised

ScenarioValue == JArr(<< JObj([title |-> JStr("Hemoglobin"), key |-> JStr("ABC123")]) >>)
PaddedValue == JArr(<< JNum(7), JNull >>)
Undecodable == { TruncatedDoc, TrailingCommaDoc, ExtraDataDoc, PlainTextDoc, NoOutput }

\* C2: with JSON requested and exit status zero, the value returned is the
\* standard output decoded as JSON; an undecodable output makes the call
\* raise instead of returning; one child process is started per call.
C2_JsonDecoded ==
    /\ (ExitedZero /\ last.json_output) =>
          /\ last.res.spawned = 1
          /\ last.res.raised = ~JsonLoads(last.child.stdout).ok
          /\ ~last.res.raised => last.res.value = JsonLoads(last.child.stdout).val
          /\ last.res.raised =>
                last.res.value = NoValue /\ last.res.exc.kind = "JSONDecodeError"
          /\ last.child.stdout = ScenarioDoc => last.res.value = ScenarioValue
          /\ last.child.stdout = PaddedDoc => last.res.value = PaddedValue
          /\ last.child.stdout \in Undecodable => last.res.raised
    /\ spawns = calls

\* an output that decodes up to trailing data: the call raises, one spawn
C2_Witness ==
    /\ ExitedZero
    /\ last.json_output
    /\ last.child.stdout = ExtraDataDoc
    /\ last.res.raised
    /\ spawns = 1

\* C3: with JSON not requested and exit status zero, the value returned is
\* the captured standard output unchanged, and the command line is the
\* tool, the command and the arguments with no '--json'.
C3_TextUnmodified ==
    (ExitedZero /\ ~last.json_output) =>
        /\ ~last.res.raised
        /\ last.res.value = PyText(last.child.stdout)
        /\ last.res.cmd = <<CLI_PATH, last.command>> \o last.args
        /\ \A i \in 1..Len(last.res.cmd) : last.res.cmd[i] # "--json"

\* text with leading and trailing whitespace is returned with it
C3_Witness ==
    /\ ExitedZero
    /\ ~last.json_output
    /\ last.child.stdout = PaddedDoc
    /\ last.args # <<>>
    /\ last.res.value.t = "text"
    /\ last.res.value.s[Len(last.res.value.s)] = "\n"

\* C8 as stated: a child that cannot be launched surfaces as the
\* 'Command failed: ...' error, like a child that exits non-zero.
C8_Original ==
    (last.made /\ ~last.child.launched) =>
        /\ last.res.exc.kind = "Exception"
        /\ last.res.exc.msg[1] = "Command failed: "

\* C8 amended: run_zmcp raises for both, but a child that cannot be launched
\* surfaces as the FileNotFoundError of subprocess.run, without the
\* 'Command failed: ' text; only a non-zero exit surfaces as the
\* 'Command failed: <stderr>' error.
C8_LaunchFailureDiffers ==
    /\ (last.made /\ ~last.child.launched) =>
          /\ last.res.raised
          /\ last.res.value = NoValue
          /\ last.res.exc.kind = "FileNotFoundError"
          /\ ~Contains(last.res.exc.msg, <<"Command failed: ">>)
    /\ ExitedNonZero =>
          /\ last.res.raised
          /\ last.res.exc = [kind |-> "Exception",
                             msg |-> <<"Command failed: ">> \o last.child.stderr]

C8_Witness == last.made /\ ~last.child.launched /\ last.res.raised

----------------------------------------------------------------------------
(* Claims about the script, checked under Spec (C5 under FairSpec).        *)

IsBatchInvocation(r) == r.at = "ex5"
BatchInvocations == SelectSeq(invocations, IsBatchInvocation)
IsBatchLine(l) == l.label \in {"ok", "Failed"}
BatchLines == SelectSeq(out, IsBatchLine)
IsItemLine(l) == l.label = "item"
ItemLines == SelectSeq(out, IsItemLine)

StructureIds == [i \in 1..Len(structures) |-> structures[i].id]
N == Len(pdb_ids)

\* the i-th identifier failed because its child exited non-zero
NonZeroExitAt(i) ==
    BatchLines[i].label = "Failed" /\ BatchLines[i].e.kind = "Exception"
\* the i-th fetch invocation returned a value (whatever the try body did next)
ReturnedAt(i) ==
    \/ BatchLines[i].label = "ok"
    \/ BatchLines[i].label = "Failed" /\ BatchLines[i].e.kind \in {"KeyError", "TypeError"}
\* the i-th iteration completed its try body
SucceededAt(i) == BatchLines[i].label = "ok"

\* pdb_ids without its i-th element
Without(i) == SubSeq(pdb_ids, 1, i - 1) \o SubSeq(pdb_ids, i + 1, N)

\* C4 as stated: exactly one fetch invocation fails by a non-zero exit and
\* the other invocations succeed; then structures holds the N-1 others in
\* list order.
C4_Original ==
    (pc = "done") =>
        \A i \in 1..N :
            (NonZeroExitAt(i) /\ \A j \in (1..N) \ {i} : ReturnedAt(j))
                => StructureIds = Without(i)

\* C4 amended: exactly one fetch invocation fails by a non-zero exit and
\* every other invocation returns an object with a pdbId and a title that
\* can be sliced (its iteration completes); then structures has length N-1
\* and holds the others in list order, each once, with the response kept.
C4_OneFailureLeavesOthers ==
    (pc = "done") =>
        \A i \in 1..N :
            (NonZeroExitAt(i) /\ \A j \in (1..N) \ {i} : SucceededAt(j))
                => /\ Len(structures) = N - 1
                   /\ StructureIds = Without(i)
                   /\ \A k \in 1..Len(structures) :
                         /\ structures[k].file = PdbFile(structures[k].id)
                         /\ SubscriptErr(structures[k].metadata, "pdbId") = NoError
                         /\ Sliceable(structures[k].metadata.o["title"])

\* the second identifier fails by a non-zero exit, the other three succeed
C4_Witness ==
    /\ pc = "done"
    /\ NonZeroExitAt(2)
    /\ SucceededAt(1) /\ SucceededAt(3) /\ SucceededAt(4)
    /\ Len(structures) = 3

FetchCmd(id) == <<CLI_PATH, "fetch-pdb", id, "--output", PdbFile(id), "--json">>

BatchInOrder ==
    /\ Len(BatchInvocations) = idx
    /\ idx <= N
    /\ \A i \in 1..Len(BatchInvocations) : BatchInvocations[i].cmd = FetchCmd(pdb_ids[i])
    /\ Len(BatchLines) = idx
    /\ pc = "done" => Len(BatchInvocations) = N

\* C5: the loop invokes the tool once per identifier, in list order, whatever
\* the earlier identifiers did, and once entered it reaches its end with
\* every identifier attempted.
C5_EveryIdentifierAttempted ==
    /\ []BatchInOrder
    /\ (pc = "ex5") ~> (pc = "done" /\ Len(BatchInvocations) = N)

\* the loop ended although the first three identifiers failed, one by a
\* decoding error, one by a non-zero exit, one because it could not start
C5_Witness ==
    /\ pc = "done"
    /\ Len(BatchInvocations) = N
    /\ BatchLines[1].label = "Failed" /\ BatchLines[1].e.kind = "JSONDecodeError"
    /\ BatchLines[2].label = "Failed" /\ BatchLines[2].e.kind = "Exception"
    /\ BatchLines[3].label = "Failed" /\ BatchLines[3].e.kind = "FileNotFoundError"
    /\ BatchLines[4].label = "ok"

SearchReturnedList == items.t = "arr"
WellFormedItem(v) == v.t = "obj" /\ {"title", "key"} \subseteq DOMAIN v.o
LineOf(i) == [label |-> "item", i |-> i,
              title |-> items.a[i].o["title"], key |-> items.a[i].o["key"]]

\* C6 as stated: every item of the sequence returned by the search is
\* summarized.
C6_Original ==
    (SearchReturnedList /\ \A i \in 1..Len(items.a) : WellFormedItem(items.a[i]))
        => Len(ItemLines) = Len(items.a)

\* C6 amended: of a returned sequence of items, each with a title and a key,
\* exactly the first five (all of them when there are fewer) are summarized,
\* one line per item in order with its position, title and key; the items
\* after the fifth are left out.
C6_FirstFiveSummarized ==
    SearchReturnedList =>
        /\ Len(ItemLines) <= Min(SummaryLimit, Len(items.a))
        /\ \A i \in 1..Len(ItemLines) : ItemLines[i] = LineOf(i)
        /\ (\A i \in 1..Min(SummaryLimit, Len(items.a)) : WellFormedItem(items.a[i]))
              => Len(ItemLines) = Min(SummaryLimit, Len(items.a))

\* a search that returned more than five items
C6_Witness ==
    /\ SearchReturnedList
    /\ Len(items.a) > SummaryLimit
    /\ Len(ItemLines) = SummaryLimit
    /\ pc = "ex4"

Range(seq) == { seq[i] : i \in 1..Len(seq) }
Missing(v, keys) == { k \in Range(keys) : k \notin DOMAIN v.o }
ReturnedObjectAt(site) ==
    last.made /\ last.at = site /\ ~last.res.raised /\ last.res.value.t = "obj"

\* C7 as stated: no call site fails because a field is absent from the
\* response.
C7_Original ==
    /\ pc = "aborted" => err.kind # "KeyError"
    /\ \A i \in 1..Len(BatchLines) :
          BatchLines[i].label = "Failed" => BatchLines[i].e.kind # "KeyError"

\* each field of 'keys' is a plain subscript: the first absent one raises
\* KeyError, which ends the script; with none absent the script goes on
PlainReads(site, keys, then) ==
    ReturnedObjectAt(site) =>
        IF Missing(last.res.value, keys) = {}
        THEN pc = then /\ err = NoError
        ELSE /\ pc = "aborted"
             /\ err.kind = "KeyError"
             /\ err.msg[1] \in Missing(last.res.value, keys)

\* C7 amended: only two reads are optional lookups with a default, the DOI
\* of an item ('N/A') and the contentType of an attachment (''). Every other
\* named field is read by a plain subscript: when it is absent the read
\* raises KeyError, which ends the script in Examples 1-4 and fails that
\* identifier in the batch loop.
C7_OnlyDoiAndContentTypeOptional ==
    /\ PlainReads("ex1", FetchFields, "ex2")
    /\ PlainReads("ex2", SaveFields, "ex3")
    /\ PlainReads("ex4dl", DownloadFields, "ex5")
    /\ (last.made /\ last.at = "ex4" /\ pc = "aborted" /\ err.kind = "KeyError")
          => err.msg[1] \in {"item", "title", "itemType", "children", "key", "filename"}
    /\ (ReturnedObjectAt("ex4") /\ last.child.stdout = GetNoPdbDoc)
          => /\ pc = "ex5"
             /\ out[Len(out) - 1] = [label |-> "DOI", v |-> JStr("N/A")]
             /\ out[Len(out)] = [label |-> "Attachments", n |-> 1]
    /\ \A i \in 1..Len(BatchLines) :
          (BatchLines[i].label = "Failed" /\ BatchLines[i].e.kind = "KeyError")
              => BatchLines[i].e.msg[1] \in {"pdbId", "title"}

\* the fetch of Example 1 returns an object without a title
C7_Witness ==
    /\ ReturnedObjectAt("ex1")
    /\ "title" \notin DOMAIN last.res.value.o
    /\ pc = "aborted"
    /\ err = KeyError("title")

\* C9 as stated: the batch issues a fetch and then a save-citation
\* invocation for each identifier.
C9_Original ==
    (pc = "done") =>
        /\ Len(BatchInvocations) = 2 * N
        /\ \A i \in 1..N :
              /\ BatchInvocations[2 * i - 1].cmd[2] = "fetch-pdb"
              /\ BatchInvocations[2 * i - 1].cmd[3] = pdb_ids[i]
              /\ BatchInvocations[2 * i].cmd[2] = "save-pdb"
              /\ BatchInvocations[2 * i].cmd[3] = pdb_ids[i]

IsOkLine(l) == l.label = "ok"

\* C9 amended: the batch issues one invocation per identifier, a fetch
\* ('fetch-pdb') and no save-citation invocation, sequentially and before the
\* next identifier is started, with one outcome per identifier accumulated
\* independently of the others.
C9_BatchFetchesOnly ==
    /\ \A i \in 1..Len(BatchInvocations) :
          /\ BatchInvocations[i].cmd[2] = "fetch-pdb"
          /\ BatchInvocations[i].cmd[3] = pdb_ids[i]
    /\ \A i \in 1..Len(invocations) :
          invocations[i].cmd[2] = "save-pdb" => invocations[i].at = "ex2"
    /\ Len(BatchLines) = Len(BatchInvocations)
    /\ Len(structures) = Len(SelectSeq(BatchLines, IsOkLine))
    /\ \A i \in 1..Len(BatchLines) :
          BatchLines[i].label = "Failed" => BatchLines[i].id = pdb_ids[i]
    /\ pc = "done" => Len(BatchInvocations) = N

\* the batch ran to its end with every identifier fetched
C9_Witness ==
    /\ pc = "done"
    /\ Len(BatchInvocations) = N
    /\ Len(structures) = N

PreBatchSites == {"ex1", "ex2", "ex3", "ex4", "ex4dl"}

FailureIsolation ==
    /\ (last.made /\ last.at \in PreBatchSites /\ last.res.raised) =>
          /\ pc = "aborted"
          /\ err = last.res.exc
    /\ pc = "aborted" =>
          /\ err.kind # "none"
          /\ last.made /\ last.at \in PreBatchSites
          /\ idx = 0
          /\ BatchInvocations = <<>>
          /\ structures = <<>>
    /\ (last.made /\ last.at = "ex5") => (pc \in {"ex5", "done"} /\ err = NoError)

\* C10: a failure of an invocation of Examples 1-4 ends the script there, no
\* invocation follows it and the batch attempts nothing; a failure inside
\* the batch loop never ends the script.
C10_IsolationOnlyInBatch ==
    /\ []FailureIsolation
    /\ [][pc # "aborted"]_vars

\* the search of Example 3 fails: the script stops after three invocations
C10_Witness ==
    /\ pc = "aborted"
    /\ last.at = "ex3"
    /\ last.res.raised
    /\ Len(invocations) = 3
    /\ idx = 0

====
